---- MODULE Spec2Model ----
(***************************************************************************)
(* The Storage contract (README.md, Step 7) on its host ledger, the        *)
(* deployment script scripts/deploy.js that instantiates it and exercises  *)
(* it once, and the other accounts that call the contract's public         *)
(* functions (README.md, Step 11).                                         *)
(*                                                                         *)
(* The ledger is a transaction pool (submitted, not yet confirmed) and a   *)
(* chain (confirmed, in order).  The script is an async function: it runs  *)
(* from one await to the next without interruption, so each action of the  *)
(* script is "the awaited promise settles, and main runs up to and         *)
(* including the call of the next awaited operation".                      *)
(***************************************************************************)
EXTENDS Integers, Sequences, FiniteSets, TLC

\* ---------------------------------------------------------------- bounds
\* Other accounts draw store() arguments from 0..MaxValue (plus the two
\* literals of the script); uint256 values are never combined by arithmetic.
MaxValue == 1
\* Number of store transactions the other accounts submit in all.
MaxClientTx == 2

\* ------------------------------------------------------ program constants
\* scripts/deploy.js:13   storage.store(50)
StoreArg == 50
\* scripts/deploy.js:12   "Store value 100 in the contract..."
AnnouncedValue == 100

Values == (0 .. MaxValue) \cup {StoreArg, AnnouncedValue}
\* The account the script signs with, and the other accounts.  Each
\* transaction of the others may come from a different account, so the host
\* may confirm them in any order.
Driver == "driver"
Other == "other"
Readers == {Driver, Other}

\* storage.address, fixed by the deploying account and its nonce
StorageAddress == "0xStorage"
NoRead == [at |-> 0, val |-> 0]

VARIABLES
    instantiated,   \* ledger: contract code exists at StorageAddress
    number,         \* ledger: contract storage slot `uint256 private number`
    mempool,        \* ledger: transactions submitted, not yet confirmed
    chain,          \* ledger: confirmed transactions, in confirmation order
    sent,          \* other accounts: store transactions submitted so far
    lastRead,       \* script / others: chain height and value of the latest retrieve()
    pc,             \* script: the line main() is suspended at
    issued,         \* script: host operations called so far, in call order
    inflight,       \* script: indexes into issued of calls not yet settled
    tx,             \* script: `const tx`
    stdout,         \* script: console.log lines
    stderr,         \* script: console.error lines
    error,          \* script: the rejected operation, "none" while none
    exitCode,       \* script: process.exitCode, <<>> while undefined
    exitStatus      \* script: <<status>> once the process has ended

ledger == <<instantiated, number, mempool, chain>>
script == <<pc, issued, inflight, tx, stdout, stderr, error, exitCode, exitStatus>>
vars == <<instantiated, number, mempool, chain, sent, lastRead,
          pc, issued, inflight, tx, stdout, stderr, error, exitCode, exitStatus>>

\* ------------------------------------------------------------ the contract
\* function store(uint256 num) public { number = num; }
\* The value of `number` after the call, given its value before.
store_accumulate(cur, num) == cur + num
store_keep_nonzero(cur, num) == IF cur = 0 THEN num ELSE cur
store(cur, num) == num

\* uint256 private number;  -- the contract's storage on creation
Storage_new_dirty == [number |-> 1]
Storage_new == [number |-> 0]

\* function retrieve() public view returns (uint256) { return number; }
retrieve_zero(cur) == 0
retrieve(cur) == cur

\* ------------------------------------------------------------ transactions
DeployTx == [from |-> Driver, seq |-> 0, kind |-> "deploy", num |-> 0]
StoreTx(a, n, v) == [from |-> a, seq |-> n, kind |-> "store", num |-> v]
NoTx == [from |-> Driver, seq |-> 0, kind |-> "none", num |-> 0]

\* the transaction the script sends at line 13
DriverStoreTx == StoreTx(Driver, 1, StoreArg)

Confirmed(t) == \E i \in 1 .. Len(chain) : chain[i] = t

\* The fixed sequence of host operations of main(), lines 5-16.
Order == <<"deploy", "deployed", "retrieve", "store", "wait", "retrieve">>

\* ------------------------------------------------------------------- Init
Init ==
    /\ instantiated = FALSE
    /\ number = 0         \* no contract yet: the slot does not exist
    /\ mempool = {}
    /\ chain = <<>>
    /\ sent = 0
    /\ lastRead = [r \in Readers |-> NoRead]
    /\ pc = "start"
    /\ issued = <<>>
    /\ inflight = {}
    /\ tx = NoTx
    /\ stdout = <<>>
    /\ stderr = <<>>
    /\ error = "none"
    /\ exitCode = <<>>
    /\ exitStatus = <<>>

\* ------------------------------------------------------------- the ledger
\* The host confirms one pooled transaction.  A deployment creates the
\* contract with zeroed storage; a store transaction runs store(num).
Mine ==
    \E t \in mempool :
        /\ t.kind = "store" => instantiated
        /\ mempool' = mempool \ {t}
        /\ chain' = Append(chain, t)
        /\ instantiated' = (instantiated \/ t.kind = "deploy")
        /\ number' = IF t.kind = "deploy" THEN Storage_new.number
                                          ELSE store(number, t.num)
        /\ UNCHANGED <<sent, lastRead>>
        /\ UNCHANGED script

\* --------------------------------------------------------- other accounts
\* README.md Step 11: an account submits store(v) to the deployed contract.
ClientStore ==
    \E v \in Values :
        /\ instantiated
        /\ sent < MaxClientTx
        /\ mempool' = mempool \cup {StoreTx(Other, sent, v)}
        /\ sent' = sent + 1
        /\ UNCHANGED <<instantiated, number, chain, lastRead>>
        /\ UNCHANGED script

\* README.md Step 11: an account reads the number (a view call).
ClientRetrieve_clearing ==
    /\ instantiated
    /\ lastRead' = [lastRead EXCEPT ![Other] = [at |-> Len(chain), val |-> retrieve(number)]]
    /\ number' = 0
    /\ UNCHANGED <<instantiated, mempool, chain, sent>>
    /\ UNCHANGED script

ClientRetrieve ==
    /\ instantiated
    /\ lastRead' = [lastRead EXCEPT ![Other] = [at |-> Len(chain), val |-> retrieve(number)]]
    /\ UNCHANGED <<instantiated, number, mempool, chain, sent>>
    /\ UNCHANGED script

\* ------------------------------------------------------------- the script
Line(text, args) == [text |-> text, args |-> args]
Announcement == Line("Store value 100 in the contract...", <<>>)

\* main() calls the host operation op: the awaited one has settled, op is
\* now the one awaited.
Call(op) ==
    /\ issued' = Append(issued, op)
    /\ inflight' = (inflight \ {Len(issued)}) \cup {Len(issued) + 1}

\* line 19: main() is called and suspends at line 4 (getContractFactory
\* reads the compiled artifact; it is no host operation).
Main ==
    /\ pc = "start"
    /\ pc' = "L4"
    /\ UNCHANGED <<issued, inflight, tx, stdout, stderr, error, exitCode, exitStatus>>
    /\ UNCHANGED <<sent, lastRead>>
    /\ UNCHANGED ledger

\* line 4 resolves; line 5 calls Storage.deploy().
Await_getContractFactory ==
    /\ pc = "L4"
    /\ pc' = "L5"
    /\ Call("deploy")
    /\ UNCHANGED <<tx, stdout, stderr, error, exitCode, exitStatus>>
    /\ UNCHANGED <<sent, lastRead>>
    /\ UNCHANGED ledger

\* line 5 resolves: the host has taken the deployment transaction;
\* line 7 calls storage.deployed().
Await_deploy ==
    /\ pc = "L5"
    /\ pc' = "L7"
    /\ mempool' = mempool \cup {DeployTx}
    /\ Call("deployed")
    /\ UNCHANGED <<tx, stdout, stderr, error, exitCode, exitStatus>>
    /\ UNCHANGED <<sent, lastRead>>
    /\ UNCHANGED <<instantiated, number, chain>>

\* line 7 resolves once the deployment is confirmed; line 8 logs the
\* address; line 10 calls storage.retrieve().
Await_deployed ==
    /\ pc = "L7"
    /\ Confirmed(DeployTx)
    /\ pc' = "L10"
    /\ stdout' = Append(stdout, Line("Storage contract deployed to:", <<StorageAddress>>))
    /\ Call("retrieve")
    /\ UNCHANGED <<tx, stderr, error, exitCode, exitStatus>>
    /\ UNCHANGED <<sent, lastRead>>
    /\ UNCHANGED ledger

\* line 10 resolves with the value read and logs it; line 12 logs the
\* announcement; line 13 calls storage.store(50).
Await_retrieve1 ==
    /\ pc = "L10"
    /\ instantiated
    /\ pc' = "L13"
    /\ lastRead' = [lastRead EXCEPT ![Driver] = [at |-> Len(chain), val |-> retrieve(number)]]
    /\ stdout' = stdout \o <<Line("Retrieve value:", <<retrieve(number)>>), Announcement>>
    /\ Call("store")
    /\ UNCHANGED <<tx, stderr, error, exitCode, exitStatus>>
    /\ UNCHANGED sent
    /\ UNCHANGED ledger

\* line 13 resolves with the pending transaction; line 14 calls tx.wait().
Await_store_nowait ==
    /\ pc = "L13"
    /\ pc' = "L16"
    /\ tx' = DriverStoreTx
    /\ mempool' = mempool \cup {DriverStoreTx}
    /\ issued' = issued \o <<"wait", "retrieve">>
    /\ inflight' = (inflight \ {Len(issued)}) \cup {Len(issued) + 1, Len(issued) + 2}
    /\ UNCHANGED <<stdout, stderr, error, exitCode, exitStatus>>
    /\ UNCHANGED <<sent, lastRead>>
    /\ UNCHANGED <<instantiated, number, chain>>

Await_store ==
    /\ pc = "L13"
    /\ pc' = "L14"
    /\ tx' = DriverStoreTx
    /\ mempool' = mempool \cup {DriverStoreTx}
    /\ Call("wait")
    /\ UNCHANGED <<stdout, stderr, error, exitCode, exitStatus>>
    /\ UNCHANGED <<sent, lastRead>>
    /\ UNCHANGED <<instantiated, number, chain>>

\* line 14 resolves once tx is confirmed; line 16 calls storage.retrieve().
Await_wait_unconfirmed ==
    /\ pc = "L14"
    /\ pc' = "L16"
    /\ Call("retrieve")
    /\ UNCHANGED <<tx, stdout, stderr, error, exitCode, exitStatus>>
    /\ UNCHANGED <<sent, lastRead>>
    /\ UNCHANGED ledger

Await_wait ==
    /\ pc = "L14"
    /\ Confirmed(tx)
    /\ pc' = "L16"
    /\ Call("retrieve")
    /\ UNCHANGED <<tx, stdout, stderr, error, exitCode, exitStatus>>
    /\ UNCHANGED <<sent, lastRead>>
    /\ UNCHANGED ledger

\* line 16 resolves with the value read and logs it; main() returns.
Await_retrieve2 ==
    /\ pc = "L16"
    /\ instantiated
    /\ pc' = "returned"
    /\ lastRead' = [lastRead EXCEPT ![Driver] = [at |-> Len(chain), val |-> retrieve(number)]]
    /\ stdout' = Append(stdout, Line("Retrieve value after storing:", <<retrieve(number)>>))
    /\ inflight' = inflight \ {Len(issued)}
    /\ UNCHANGED <<issued, tx, stderr, error, exitCode, exitStatus>>
    /\ UNCHANGED sent
    /\ UNCHANGED ledger

\* The operation main() is suspended on.
Awaited ==
    CASE pc = "L4"  -> "getContractFactory"
      [] pc = "L5"  -> "deploy"
      [] pc = "L7"  -> "deployed"
      [] pc = "L10" -> "retrieve"
      [] pc = "L13" -> "store"
      [] pc = "L14" -> "wait"
      [] pc = "L16" -> "retrieve"
      [] OTHER      -> "none"

\* The transaction the awaited call carries to the host, if any.
Carried ==
    CASE pc = "L5"  -> {DeployTx}
      [] pc = "L13" -> {DriverStoreTx}
      [] OTHER      -> {}

\* lines 19-22: the awaited promise rejects, main() rejects, the handler
\* logs the error and sets process.exitCode.  A rejected send may or may
\* not have reached the host's pool.
Catch_silent ==
    /\ Awaited # "none"
    /\ pc' = "caught"
    /\ error' = Awaited
    /\ stderr' = Append(stderr, Awaited)
    /\ exitCode' = exitCode
    /\ inflight' = inflight \ {Len(issued)}
    /\ \E reached \in SUBSET Carried : mempool' = mempool \cup reached
    /\ UNCHANGED <<issued, tx, stdout, exitStatus>>
    /\ UNCHANGED <<sent, lastRead>>
    /\ UNCHANGED <<instantiated, number, chain>>

Catch ==
    /\ Awaited # "none"
    /\ pc' = "caught"
    /\ error' = Awaited
    /\ stderr' = Append(stderr, Awaited)
    /\ exitCode' = <<1>>
    /\ inflight' = inflight \ {Len(issued)}
    /\ \E reached \in SUBSET Carried : mempool' = mempool \cup reached
    /\ UNCHANGED <<issued, tx, stdout, exitStatus>>
    /\ UNCHANGED <<sent, lastRead>>
    /\ UNCHANGED <<instantiated, number, chain>>

\* The process ends: status process.exitCode, 0 when it was never set.
Exit ==
    /\ pc \in {"returned", "caught"}
    /\ pc' = "exited"
    /\ exitStatus' = IF exitCode = <<>> THEN <<0>> ELSE exitCode
    /\ UNCHANGED <<issued, inflight, tx, stdout, stderr, error, exitCode>>
    /\ UNCHANGED <<sent, lastRead>>
    /\ UNCHANGED ledger

\* ------------------------------------------------------------------- Next
Next ==
    \/ Mine
    \/ ClientStore
    \/ ClientRetrieve
    \/ Main
    \/ Await_getContractFactory
    \/ Await_deploy
    \/ Await_deployed
    \/ Await_retrieve1
    \/ Await_store
    \/ Await_wait
    \/ Await_retrieve2
    \/ Catch
    \/ Exit

Spec == Init /\ [][Next]_vars

\* ------------------------------------------------- vocabulary of the claims
\* Positions of the writes confirmed in the first h transactions.
StoresUpTo(h) == {i \in 1 .. h : chain[i].kind = "store"}
Latest(S) == CHOOSE i \in S : \A j \in S : j <= i
\* The argument of the most recently confirmed write at height h, 0 if none.
ValueAt(h) == IF StoresUpTo(h) = {} THEN 0 ELSE chain[Latest(StoresUpTo(h))].num
HasRead(r) == lastRead[r].at >= 1
IsPrefix(s, t) == Len(s) <= Len(t) /\ \A i \in 1 .. Len(s) : s[i] = t[i]
Succeeded == pc \in {"returned", "exited"} /\ error = "none"
ReadStep == ClientRetrieve \/ Await_retrieve1 \/ Await_retrieve2

\* C1: a read taken when the latest confirmed transaction is write(v), so
\* that no other write was confirmed in between, returned exactly v, for
\* every v of the value range.
C1_WriteReadConsistency ==
    \A r \in Readers, v \in Values :
        (/\ HasRead(r)
         /\ chain[lastRead[r].at].kind = "store"
         /\ chain[lastRead[r].at].num = v) => lastRead[r].val = v

\* C1 witness: an account has read back MaxValue right after its confirmation,
\* on top of an earlier confirmed write.
C1_Witness ==
    \E r \in {Other} :
        /\ lastRead[r].at >= 3
        /\ chain[lastRead[r].at].num = MaxValue
        /\ lastRead[r].val = MaxValue

\* C2: a read taken before any write was confirmed returned 0, and when the
\* script's first read is such a read, the value it reports right after the
\* deployment line is 0.
C2_ZeroInitialized ==
    /\ \A r \in Readers :
          (HasRead(r) /\ StoresUpTo(lastRead[r].at) = {}) => lastRead[r].val = 0
    /\ (Len(stdout) = 3 /\ StoresUpTo(lastRead[Driver].at) = {}) =>
          /\ stdout[1].text = "Storage contract deployed to:"
          /\ stdout[2] = Line("Retrieve value:", <<0>>)

\* C2 witness: the script has reported its first read, taken on the fresh
\* contract while another account's write was still unconfirmed.
C2_Witness ==
    /\ Len(stdout) = 3
    /\ lastRead[Driver].at = 1
    /\ stdout[2].args = <<0>>
    /\ \E t \in mempool : t.kind = "store" /\ t.num # 0

\* C3: once two writes v1 then v2 are confirmed the stored value is v2 and
\* every read taken from then on returns the latest confirmed argument; the
\* stored value changes only by the confirmation of a write of the new value,
\* so v1 comes back only by being written again.
C3_LastWriteWins ==
    /\ [](Len(chain) >= 3 => number = chain[Len(chain)].num)
    /\ [][\A r \in Readers :
            (lastRead'[r] # lastRead[r] /\ Len(chain) >= 3)
                => lastRead'[r].val = chain[Len(chain)].num]_vars
    /\ [][number' # number =>
            /\ Len(chain') = Len(chain) + 1
            /\ chain'[Len(chain')].kind = "store"
            /\ chain'[Len(chain')].num = number']_vars

\* C3 witness: v1 then a different v2 are confirmed, v1 non-zero, and a read
\* taken afterwards returned v2.
C3_Witness ==
    \E r \in Readers :
        /\ Len(chain) >= 3
        /\ lastRead[r].at = Len(chain)
        /\ chain[Len(chain) - 1].kind = "store"
        /\ chain[Len(chain) - 1].num # 0
        /\ chain[Len(chain) - 1].num # chain[Len(chain)].num
        /\ lastRead[r].val = chain[Len(chain)].num

\* C4: a read leaves the stored value, the instantiation status, the chain
\* and the pool as they were, and reads taken at the same chain height
\* returned the same value.
C4_ReadIsPure ==
    /\ [][ReadStep => UNCHANGED ledger]_vars
    /\ [](\A r1, r2 \in Readers :
            (HasRead(r1) /\ lastRead[r1].at = lastRead[r2].at)
                => lastRead[r1].val = lastRead[r2].val)

\* C4 witness: the script and another account have both read a non-zero
\* value at the same height, and the value is still stored.
C4_Witness ==
    /\ \A r \in Readers : lastRead[r].at = Len(chain) /\ lastRead[r].val = number
    /\ number # 0

\* C6: the stored value, and the value every read returned, is the argument
\* of the write most recently confirmed when the read was taken, 0 if none;
\* writes still in the pool do not count.
C6_ReadsReflectConfirmed ==
    /\ instantiated => number = ValueAt(Len(chain))
    /\ \A r \in Readers : HasRead(r) => lastRead[r].val = ValueAt(lastRead[r].at)

\* C6 witness: the script's write is submitted and unconfirmed, and a read
\* taken meanwhile returned the older confirmed value.
C6_Witness ==
    /\ DriverStoreTx \in mempool
    /\ \E r \in {Other} :
        /\ lastRead[r].at = Len(chain)
        /\ Len(chain) >= 2
        /\ lastRead[r].val = chain[Len(chain)].num
        /\ lastRead[r].val # StoreArg

\* C7: the host operations called so far are a prefix of deploy, deployed,
\* retrieve, store, wait, retrieve; at most one is in flight; and each call
\* adds one operation and leaves it the only one in flight.
C7_Sequential ==
    /\ [](IsPrefix(issued, Order) /\ Cardinality(inflight) <= 1)
    /\ [][issued' # issued =>
            /\ issued' = Append(issued, Order[Len(issued) + 1])
            /\ inflight' = {Len(issued')}]_vars

\* C7 witness: a run that called all six operations and has none in flight.
C7_Witness == pc = "returned" /\ issued = Order /\ inflight = {}

\* C8: after a failure nothing more is called or reported on stdout, the
\* failure is on stderr and the exit code is set; a process that ended after
\* a failure ended non-zero, and one that ended 0 completed every step.
C8_FailureAborts ==
    /\ [](error # "none" =>
            /\ pc \in {"caught", "exited"}
            /\ stderr = <<error>>
            /\ inflight = {})
    /\ []((pc = "exited" /\ error # "none") => (exitStatus # <<>> /\ exitStatus # <<0>>))
    /\ [](exitStatus = <<0>> =>
            /\ error = "none"
            /\ issued = Order
            /\ inflight = {}
            /\ Len(stdout) = 4)
    /\ [][error # "none" => (issued' = issued /\ stdout' = stdout /\ error' = error)]_vars

\* C8 witness: the wait for the write's confirmation failed and the process
\* ended with status 1, the final read never called.
C8_Witness ==
    /\ pc = "exited"
    /\ error = "wait"
    /\ exitStatus = <<1>>
    /\ Len(issued) = 5

\* C9 as stated: in every run without a failed step the final read reports
\* the literal passed to the write.
C9_FinalReadIsLiteral ==
    Succeeded => stdout[4] = Line("Retrieve value after storing:", <<tx.num>>)

\* C9 amended: in every run without a failed step the script's write was
\* confirmed before the final read was taken, and the final read reports the
\* literal unless another account's write was confirmed in between.
C9_FinalReadIsLiteralUnlessOverwritten ==
    Succeeded =>
        \E p \in 1 .. lastRead[Driver].at :
            /\ chain[p] = tx
            /\ tx.num = StoreArg
            /\ StoresUpTo(lastRead[Driver].at) \subseteq 1 .. p
                  => stdout[4] = Line("Retrieve value after storing:", <<tx.num>>)

\* C9 witness: a run without a failed step whose write was confirmed after
\* another account's write, and whose final read reported the literal.
C9_Witness ==
    /\ Succeeded
    /\ Len(chain) >= 3
    /\ chain[lastRead[Driver].at] = tx
    /\ lastRead[Driver].at >= 3
    /\ stdout[4].args = <<StoreArg>>

\* C10: the script writes the value it announces, 100, and a run without a
\* failed step reports 100 from its final read.
C10_StoresAnnouncedValue ==
    /\ tx # NoTx => tx.num = AnnouncedValue
    /\ Succeeded => stdout[4].args = <<AnnouncedValue>>

====
